---- MODULE Spec2Model ----
(***************************************************************************)
(* Model of the VAT / bank-account verification service of main.go:        *)
(* the shared dataset (dataDate, iterations, activeHashes, exemptHashes,   *)
(* masks) guarded by the RWMutex mu, the background refresh (updateData /  *)
(* loadData) and the concurrent request handler (verifyHandler) with its   *)
(* helpers calculateHash and applyMask.                                    *)
(*                                                                         *)
(* Strings are sequences of one-character strings, so that concatenation,  *)
(* length and indexing are what the Go code does on them.  All request     *)
(* and template characters are ASCII, so len() in bytes and the number of  *)
(* runes coincide.                                                         *)
(***************************************************************************)
EXTENDS Integers, Sequences, FiniteSets, TLC

(***************************************************************************)
(* Bounds of the model (not program constants).                            *)
(***************************************************************************)
\* calculateHash is interleaved with the refresh round by round for its
\* first FineRounds rounds; the remaining rounds of a long run are one step.
FineRounds == 1

(***************************************************************************)
(* Program constants.                                                      *)
(***************************************************************************)
\* main.go:28  iterations int = 5000
DefaultIterations == 5000
\* main.go:177 len(bank) != 26
AccountLen == 26
\* main.go:27  dataDate string = "20250101"
InitialDataDate == <<"2", "0", "2", "5", "0", "1", "0", "1">>

(***************************************************************************)
(* crypto/sha512, encoding/hex, strings.ToLower.                           *)
(*                                                                         *)
(* A byte string met by the hash loop is the record                        *)
(*   seed  : the text the computation started from,                        *)
(*   sums  : how many times Sum512 has been applied,                       *)
(*   form  : "text"  the seed's own bytes            (sums = 0)            *)
(*           "raw"   the 64 digest bytes                                   *)
(*           "hex"   their lowercase hexadecimal text (128 characters)     *)
(*           "HEX"   their uppercase hexadecimal text                      *)
(*   canon : every digest so far was taken over the seed text or over      *)
(*           lowercase hex text, the way the registry publishes it.        *)
(* Sum512 is taken to be collision free: two canonical values are equal    *)
(* exactly when seed, sums and form are.                                   *)
(***************************************************************************)
Text(s) == [seed |-> s, sums |-> 0, form |-> "text", canon |-> TRUE]

Sum512(b) ==
    [seed  |-> b.seed,
     sums  |-> b.sums + 1,
     form  |-> "raw",
     canon |-> b.canon /\ b.form \in {"text", "hex"}]

\* hex.EncodeToString writes the digits 0-9a-f.
EncodeToString(b) == IF b.form = "raw" THEN [b EXCEPT !.form = "hex"] ELSE [b EXCEPT !.canon = FALSE]

ToLower(s) == IF s.form = "HEX" THEN [s EXCEPT !.form = "hex"] ELSE s

\* Mutant: the raw digest bytes, not their hex text, go into the next round.
HashRound_RawDigest(hash) == Sum512(hash)

\* One pass of the loop body of calculateHash (main.go:142-143).
HashRound(hash) == ToLower(EncodeToString(Sum512(hash)))

\* n consecutive passes of the loop body.  Once a pass leaves form and canon
\* as they are it only counts one more digest, and so does every later pass.
RECURSIVE HashRounds(_, _)
HashRounds(hash, n) ==
    IF n <= 0 THEN hash
    ELSE IF HashRound(hash) = [hash EXCEPT !.sums = @ + 1]
         THEN [hash EXCEPT !.sums = @ + n]
         ELSE HashRounds(HashRound(hash), n - 1)

\* calculateHash(input) run to completion while `iterations` stays at iters.
calculateHash(input, iters) == HashRounds(Text(input), iters)

(***************************************************************************)
(* applyMask (main.go:150-165).  The loop walks the runes of the mask; a   *)
(* 'Y' reads accountDigits[i], which panics (index out of range) when the  *)
(* account has no rune i.  The result is the masked string or Panic.       *)
(***************************************************************************)
Panic == <<"panic">>

\* Mutant: every character that is not 'X' is taken from the account.
RECURSIVE applyMaskFrom_CopyUnlessX(_, _, _)
applyMaskFrom_CopyUnlessX(maskedResult, accountDigits, i) ==
    IF i > Len(maskedResult) THEN maskedResult
    ELSE IF maskedResult[i] # "X"
         THEN IF i > Len(accountDigits) THEN Panic
              ELSE applyMaskFrom_CopyUnlessX([maskedResult EXCEPT ![i] = accountDigits[i]],
                                             accountDigits, i + 1)
         ELSE applyMaskFrom_CopyUnlessX(maskedResult, accountDigits, i + 1)

RECURSIVE applyMaskFrom(_, _, _)
applyMaskFrom(maskedResult, accountDigits, i) ==
    IF i > Len(maskedResult) THEN maskedResult
    ELSE IF maskedResult[i] = "Y"
         THEN IF i > Len(accountDigits) THEN Panic
              ELSE applyMaskFrom([maskedResult EXCEPT ![i] = accountDigits[i]],
                                 accountDigits, i + 1)
         ELSE IF maskedResult[i] = "X"
              THEN applyMaskFrom([maskedResult EXCEPT ![i] = "X"], accountDigits, i + 1)
              ELSE applyMaskFrom(maskedResult, accountDigits, i + 1)

applyMask(bank, mask) == applyMaskFrom(mask, bank, 1)

(***************************************************************************)
(* strconv.Atoi on the TransformCount text: an optional sign followed by   *)
(* at least one decimal digit; anything else is an error.                  *)
(***************************************************************************)
Digits == <<"0", "1", "2", "3", "4", "5", "6", "7", "8", "9">>

IsDigit(c) == \E d \in 1..10 : Digits[d] = c

DigitVal(c) == (CHOOSE d \in 1..10 : Digits[d] = c) - 1

RECURSIVE DecimalValue(_, _)
DecimalValue(s, acc) ==
    IF s = <<>> THEN acc ELSE DecimalValue(Tail(s), 10 * acc + DigitVal(Head(s)))

Atoi(s) ==
    LET signed == s # <<>> /\ Head(s) \in {"+", "-"}
        body   == IF signed THEN Tail(s) ELSE s
    IN  IF body = <<>> \/ \E j \in 1..Len(body) : ~IsDigit(body[j])
        THEN [err |-> TRUE, val |-> 0]
        ELSE [err |-> FALSE,
              val |-> IF signed /\ Head(s) = "-"
                      THEN 0 - DecimalValue(body, 0)
                      ELSE DecimalValue(body, 0)]

(***************************************************************************)
(* Requests and registry documents the model draws from.                   *)
(***************************************************************************)
Concat3(a, b, c) == a \o b \o c

NIP1 == <<"1", "1">>
NIP2 == <<"2", "2">>

Bank1 == <<"1","2","3","4","5","6","7","8","9","0","1","2","3",
           "4","5","6","7","8","9","0","1","2","3","4","5","6">>
Bank2 == <<"6","5","4","3","2","1","0","9","8","7","6","5","4",
           "3","2","1","0","9","8","7","6","5","4","3","2","1">>
BankShort == <<"1", "2", "3">>

\* Query parameters of GET /verify; <<>> is an absent (or empty) parameter.
NipInputs == {<<>>, NIP1, NIP2}
BankInputs == {<<>>, BankShort, Bank1, Bank2}

\* Mask templates: all 'Y'; a literal digit, 'Y', 'X' mix; no 'Y'/'X' at all;
\* and templates that are shorter or longer than an account number.
MaskAllY == [j \in 1..AccountLen |-> "Y"]
MaskMixed == [j \in 1..AccountLen |->
                 IF j = 1 THEN "9" ELSE IF j = 2 \/ j >= AccountLen - 1 THEN "Y" ELSE "X"]
MaskLiteral == [j \in 1..AccountLen |-> "0"]
MaskShort == <<"Y", "X", "1">>
MaskLong == [j \in 1..(AccountLen + 1) |-> "Y"]

\* The digest text the registry publishes for a seed hashed n times.
Published(seed, n) == [seed |-> seed, sums |-> n, form |-> "hex", canon |-> TRUE]

DateA == <<"2", "0", "2", "5", "0", "1", "0", "2">>
DateB == <<"2", "0", "2", "5", "0", "1", "0", "3">>
DateC == <<"2", "0", "2", "5", "0", "1", "0", "4">>

\* A parsed document: the DataStructure of main.go:36-44.
DocA ==
    [DataDate       |-> DateA,
     TransformCount |-> <<"2">>,
     ActiveHashes   |-> <<Published(DateA \o NIP1, 2),
                          Published(Concat3(DateA, NIP2, applyMask(Bank1, MaskMixed)), 2)>>,
     ExemptHashes   |-> <<Published(Concat3(DateA, NIP2, Bank1), 2)>>,
     Masks          |-> <<MaskMixed, MaskAllY>>]

DocB ==
    [DataDate       |-> DateB,
     TransformCount |-> <<"1">>,
     ActiveHashes   |-> <<Published(Concat3(DateB, NIP2, MaskLiteral), 1)>>,
     ExemptHashes   |-> <<Published(DateB \o NIP1, 1),
                          Published(Concat3(DateB, NIP2, applyMask(Bank1, MaskMixed)), 1),
                          Published(Concat3(DateB, NIP2, MaskLiteral), 1)>>,
     Masks          |-> <<MaskMixed, MaskLiteral>>]

\* Unparsable count; hashes listed as both active and exempt; odd templates.
DocC ==
    [DataDate       |-> DateC,
     TransformCount |-> <<"a", "b", "c">>,
     ActiveHashes   |-> <<Published(DateC \o NIP1, 2),
                          Published(Concat3(DateC, NIP2, Bank2), 2)>>,
     ExemptHashes   |-> <<Published(DateC \o NIP1, 2),
                          Published(Concat3(DateC, NIP2, Bank2), 2)>>,
     Masks          |-> <<MaskShort, MaskLong>>]

\* A document without header and arrays: every field decodes to its zero value.
DocD ==
    [DataDate       |-> <<>>,
     TransformCount |-> <<>>,
     ActiveHashes   |-> <<>>,
     ExemptHashes   |-> <<>>,
     Masks          |-> <<>>]

\* Non-positive counts.
DocE == [DocD EXCEPT !.TransformCount = <<"0">>]
DocF == [DocD EXCEPT !.TransformCount = <<"-", "3">>]

Documents == {DocA, DocB, DocC, DocD, DocE, DocF}

(***************************************************************************)
(* State.                                                                  *)
(***************************************************************************)
VARIABLES
    dataDate,       \* main.go:27
    iterations,     \* main.go:28
    activeHashes,   \* main.go:29  the key set of the map
    exemptHashes,   \* main.go:30  the key set of the map
    masks,          \* main.go:31
    mu,             \* main.go:32  sync.RWMutex
    updater,        \* the updateData goroutine: position, loadData's `structure`,
                    \* and history: loadData has returned nil at least once
    verifier,       \* the verifyHandler goroutines: position and locals
    disturbed       \* history: loadData wrote to the dataset since the call read dataDate

dataset == <<dataDate, iterations, activeHashes, exemptHashes, masks>>
vars == <<dataDate, iterations, activeHashes, exemptHashes, masks, mu, updater,
          verifier, disturbed>>

\* The goroutines net/http serves /verify requests on.
Verifiers == {"v1"}

\* The zero value of a Go string, as a byte string.
NoHash == Text(<<>>)
\* An element read through a torn slice header, outside the array it points to.
Wild == <<"wild">>

NoResponse == [response |-> "", status |-> "", bank |-> "", date |-> <<>>, message |-> ""]
\* The Response values verifyHandler encodes (main.go:47-53).
OkResponse(status, bank, date) ==
    [response |-> "OK", status |-> status, bank |-> bank, date |-> date, message |-> ""]
ErrorResponse(message) ==
    [response |-> "ERROR", status |-> "", bank |-> "", date |-> <<>>, message |-> message]
\* The handler goroutine panicked: net/http aborts the request, nothing is encoded.
PanicResponse == [NoResponse EXCEPT !.response = "PANIC"]

\* The zero value of DataStructure.
ZeroStructure ==
    [DataDate |-> <<>>, TransformCount |-> <<>>, ActiveHashes |-> <<>>,
     ExemptHashes |-> <<>>, Masks |-> <<>>]

IdleVerifier ==
    [pc |-> "idle", nip |-> <<>>, bank |-> <<>>, currentDataDate |-> <<>>,
     stage |-> "", hash |-> NoHash, i |-> 0, hashed |-> NoHash,
     isActive |-> FALSE, isExempt |-> FALSE,
     rangeMasks |-> <<>>, k |-> 0, masked |-> <<>>, resp |-> NoResponse]

\* Mutant: the service starts with a hash already in the active set.
Init_Seeded ==
    /\ dataDate = InitialDataDate
    /\ iterations = DefaultIterations
    /\ activeHashes = {Published(InitialDataDate \o NIP1, DefaultIterations)}
    /\ exemptHashes = {}
    /\ masks = <<>>
    /\ mu = [writer |-> FALSE, pending |-> FALSE, readers |-> {}]
    /\ updater = [pc |-> "attempt", structure |-> ZeroStructure, refreshed |-> FALSE]
    /\ verifier = [p \in Verifiers |-> IdleVerifier]
    /\ disturbed = [p \in Verifiers |-> FALSE]

Init ==
    /\ dataDate = InitialDataDate
    /\ iterations = DefaultIterations
    /\ activeHashes = {}
    /\ exemptHashes = {}
    /\ masks = <<>>
    /\ mu = [writer |-> FALSE, pending |-> FALSE, readers |-> {}]
    /\ updater = [pc |-> "attempt", structure |-> ZeroStructure, refreshed |-> FALSE]
    /\ verifier = [p \in Verifiers |-> IdleVerifier]
    /\ disturbed = [p \in Verifiers |-> FALSE]

Range(seq) == {seq[j] : j \in 1..Len(seq)}

(***************************************************************************)
(* sync.RWMutex.  Lock announces the writer, which keeps new readers out,  *)
(* and then waits for the readers that hold the lock to leave.             *)
(***************************************************************************)
CanRLock == ~mu.writer /\ ~mu.pending
AfterRLock(p) == [mu EXCEPT !.readers = @ \cup {p}]
AfterRUnlock(p) == [mu EXCEPT !.readers = @ \ {p}]
CanLock == mu.readers = {} /\ ~mu.writer

(***************************************************************************)
(* updateData (main.go:251-280) and loadData (main.go:93-135).             *)
(***************************************************************************)
UpdaterAt(pc) == updater.pc = pc
UpdaterGoto(pc) == updater' = [updater EXCEPT !.pc = pc]

\* A verify call that has read dataDate and not yet been answered for.
InCall(p) == verifier[p].pc \notin {"idle", "rlock_date", "read_date"}
                /\ verifier[p].resp.response # "ERROR"
Disturb == disturbed' = [p \in DOMAIN disturbed |-> disturbed[p] \/ InCall(p)]

\* downloadFile fails: main.go:254-258.
DownloadFail ==
    /\ UpdaterAt("attempt")
    /\ UpdaterGoto("sleep_1h")
    /\ UNCHANGED <<dataset, mu, verifier, disturbed>>

\* downloadFile succeeds, extractFile fails: main.go:261-265.
ExtractFail ==
    /\ UpdaterAt("attempt")
    /\ UpdaterGoto("sleep_1h")
    /\ UNCHANGED <<dataset, mu, verifier, disturbed>>

\* The file is extracted, os.ReadFile fails: main.go:96-100, then 268-271.
ReadFileFail ==
    /\ UpdaterAt("attempt")
    /\ UpdaterGoto("sleep_1h")
    /\ UNCHANGED <<dataset, mu, verifier, disturbed>>

\* Mutant: the date is stored before the document is known to parse.
UnmarshalFail_StoresDate ==
    /\ UpdaterAt("attempt")
    /\ UpdaterGoto("sleep_1h")
    /\ dataDate' = <<>>
    /\ UNCHANGED <<iterations, activeHashes, exemptHashes, masks, mu, verifier, disturbed>>

\* The file is read, json.Unmarshal fails: main.go:103-106, then 268-271.
UnmarshalFail ==
    /\ UpdaterAt("attempt")
    /\ UpdaterGoto("sleep_1h")
    /\ UNCHANGED <<dataset, mu, verifier, disturbed>>

\* Download, extraction and read succeed, json.Unmarshal fills `structure`
\* and mu.Lock() is called: main.go:254-268, 96-108.
LockRequestOf(docs) ==
    /\ UpdaterAt("attempt")
    /\ \E doc \in docs : updater' = [updater EXCEPT !.pc = "lock_wait", !.structure = doc]
    /\ mu' = [mu EXCEPT !.pending = TRUE]
    /\ UNCHANGED <<dataset, verifier, disturbed>>

LockRequest == LockRequestOf(Documents)

\* mu.Lock() returns.
LockAcquire ==
    /\ UpdaterAt("lock_wait")
    /\ CanLock
    /\ mu' = [mu EXCEPT !.pending = FALSE, !.writer = TRUE]
    /\ UpdaterGoto("store_header")
    /\ UNCHANGED <<dataset, verifier, disturbed>>

\* Mutant: a count of zero is accepted.
ParsedIterations_AcceptsZero(count, current) ==
    LET parsed == Atoi(count)
    IN  IF ~parsed.err /\ parsed.val >= 0 THEN parsed.val ELSE current

\* main.go:112-116
ParsedIterations(count, current) ==
    LET parsed == Atoi(count)
    IN  IF ~parsed.err /\ parsed.val > 0 THEN parsed.val ELSE current

\* main.go:111-116: the header fields.
StoreHeader ==
    /\ UpdaterAt("store_header")
    /\ dataDate' = updater.structure.DataDate
    /\ iterations' = ParsedIterations(updater.structure.TransformCount, iterations)
    /\ UpdaterGoto("store_hashes")
    /\ Disturb
    /\ UNCHANGED <<activeHashes, exemptHashes, masks, mu, verifier>>

\* main.go:119-127: both maps are rebuilt.
StoreHashes ==
    /\ UpdaterAt("store_hashes")
    /\ activeHashes' = Range(updater.structure.ActiveHashes)
    /\ exemptHashes' = Range(updater.structure.ExemptHashes)
    /\ UpdaterGoto("store_masks")
    /\ Disturb
    /\ UNCHANGED <<dataDate, iterations, masks, mu, verifier>>

\* main.go:129: the store of the slice header (pointer, length, capacity)
\* begins; until it ends a reader without the lock may see any mix.
StoreMasksBegin ==
    /\ UpdaterAt("store_masks")
    /\ UpdaterGoto("store_masks_end")
    /\ Disturb
    /\ UNCHANGED <<dataset, mu, verifier>>

StoreMasksEnd ==
    /\ UpdaterAt("store_masks_end")
    /\ masks' = updater.structure.Masks
    /\ UpdaterGoto("unlock")
    /\ Disturb
    /\ UNCHANGED <<dataDate, iterations, activeHashes, exemptHashes, mu, verifier>>

\* The deferred mu.Unlock() as loadData returns nil: main.go:109, 134.
Unlock ==
    /\ UpdaterAt("unlock")
    /\ mu' = [mu EXCEPT !.writer = FALSE]
    /\ updater' = [pc |-> "sleep_24h", structure |-> ZeroStructure, refreshed |-> TRUE]
    /\ UNCHANGED <<dataset, verifier, disturbed>>

\* Mutant: after a failed attempt the goroutine returns instead of retrying.
WakeAfterFailure_Returns ==
    /\ UpdaterAt("sleep_1h")
    /\ UpdaterGoto("returned")
    /\ UNCHANGED <<dataset, mu, verifier, disturbed>>

\* time.Sleep(1 * time.Hour); continue   (main.go:257, 264, 270)
WakeAfterFailure ==
    /\ UpdaterAt("sleep_1h")
    /\ UpdaterGoto("attempt")
    /\ UNCHANGED <<dataset, mu, verifier, disturbed>>

\* time.Sleep(24 * time.Hour)   (main.go:278)
WakeAfterSuccess ==
    /\ UpdaterAt("sleep_24h")
    /\ UpdaterGoto("attempt")
    /\ UNCHANGED <<dataset, mu, verifier, disturbed>>

UpdateData ==
    \/ DownloadFail \/ ExtractFail \/ ReadFileFail \/ UnmarshalFail
    \/ LockRequest \/ LockAcquire
    \/ StoreHeader \/ StoreHashes
    \/ StoreMasksBegin \/ StoreMasksEnd
    \/ Unlock
    \/ WakeAfterFailure \/ WakeAfterSuccess

(***************************************************************************)
(* verifyHandler (main.go:168-243).                                        *)
(***************************************************************************)
VerifierAt(p, pc) == verifier[p].pc = pc
Becomes(p, rec) == verifier' = [verifier EXCEPT ![p] = rec]

\* calculateHash(input) is entered: main.go:139.
EnterHash(v, stage, input) ==
    [v EXCEPT !.pc = "hash", !.stage = stage, !.hash = Text(input), !.i = 0]

\* A response is encoded and the handler returns.
Answer(v, resp) == [v EXCEPT !.pc = "done", !.resp = resp]

\* Mutant: the account is validated before the taxId.
Validate_AccountFirst(p) ==
    /\ VerifierAt(p, "idle")
    /\ \E nip \in NipInputs, bank \in BankInputs :
          LET v == [verifier[p] EXCEPT !.nip = nip, !.bank = bank]
          IN  Becomes(p,
                IF bank # <<>> /\ Len(bank) # AccountLen
                THEN Answer(v, ErrorResponse("Invalid bank account number"))
                ELSE IF nip = <<>>
                     THEN Answer(v, ErrorResponse("Missing required parameters"))
                     ELSE [v EXCEPT !.pc = "rlock_date"])
    /\ disturbed' = [disturbed EXCEPT ![p] = FALSE]
    /\ UNCHANGED <<dataset, mu, updater>>

\* main.go:169-180: the query is read and validated.
ValidateOf(p, nips, banks) ==
    /\ VerifierAt(p, "idle")
    /\ \E nip \in nips, bank \in banks :
          LET v == [verifier[p] EXCEPT !.nip = nip, !.bank = bank]
          IN  Becomes(p,
                IF nip = <<>>
                THEN Answer(v, ErrorResponse("Missing required parameters"))
                ELSE IF bank # <<>> /\ Len(bank) # AccountLen
                     THEN Answer(v, ErrorResponse("Invalid bank account number"))
                     ELSE [v EXCEPT !.pc = "rlock_date"])
    /\ disturbed' = [disturbed EXCEPT ![p] = FALSE]
    /\ UNCHANGED <<dataset, mu, updater>>

Validate(p) == ValidateOf(p, NipInputs, BankInputs)

\* mu.RLock(): main.go:182, 189, 207, 226.
RLock(p) ==
    /\ verifier[p].pc \in {"rlock_date", "rlock_lookup"}
    /\ CanRLock
    /\ mu' = AfterRLock(p)
    /\ Becomes(p, [verifier[p] EXCEPT
                     !.pc = IF @ = "rlock_date" THEN "read_date" ELSE "lookup"])
    /\ UNCHANGED <<dataset, updater, disturbed>>

\* main.go:183-186: dataDate is copied, the lock released and the hash of
\* currentDataDate + nip begun.
ReadDate(p) ==
    /\ VerifierAt(p, "read_date")
    /\ mu' = AfterRUnlock(p)
    /\ Becomes(p, EnterHash([verifier[p] EXCEPT !.currentDataDate = dataDate],
                            "identity", dataDate \o verifier[p].nip))
    /\ UNCHANGED <<dataset, updater, disturbed>>

\* main.go:141-146: one test of `i < iterations`, which reads the shared
\* variable without the lock, and the loop body if it passes.
HashStep(p) ==
    /\ VerifierAt(p, "hash")
    /\ LET v == verifier[p]
           n == IF v.i < FineRounds THEN 1 ELSE iterations - v.i
       IN  Becomes(p,
             IF v.i < iterations
             THEN [v EXCEPT !.hash = HashRounds(v.hash, n), !.i = v.i + n]
             ELSE [v EXCEPT !.pc = "rlock_lookup", !.hashed = v.hash,
                            !.hash = NoHash, !.i = 0])
    /\ UNCHANGED <<dataset, mu, updater, disturbed>>

\* The status and bank fields of a match in the given stage.
MatchResponse(v, status) ==
    OkResponse(status, IF v.stage = "identity" THEN "NA" ELSE "MATCHED", v.currentDataDate)

\* Mutant: the response carries the date that is live when it is written.
NotFoundResponse_LiveDate(v) == OkResponse("NOT_FOUND", "NOT_FOUND", dataDate)

\* main.go:242
NotFoundResponse(v) == OkResponse("NOT_FOUND", "NOT_FOUND", v.currentDataDate)

\* Mutant: the direct hash is taken over date + account + taxId.
AfterMiss_AccountBeforeNip(v0) ==
    LET v == [v0 EXCEPT !.hashed = NoHash, !.masked = <<>>]
    IN
    IF v.stage = "identity"
    THEN IF v.bank # <<>>
         THEN EnterHash(v, "direct", Concat3(v.currentDataDate, v.bank, v.nip))
         ELSE Answer(v, NotFoundResponse(v))
    ELSE IF v.stage = "direct"
         THEN [v EXCEPT !.pc = "range"]
         ELSE [v EXCEPT !.pc = "next_mask", !.k = v.k + 1]

\* Mutant: the scan gives up after the first template that misses.
AfterMiss_StopAtFirstMiss(v0) ==
    LET v == [v0 EXCEPT !.hashed = NoHash, !.masked = <<>>]
    IN
    IF v.stage = "identity"
    THEN IF v.bank # <<>>
         THEN EnterHash(v, "direct", Concat3(v.currentDataDate, v.nip, v.bank))
         ELSE Answer(v, NotFoundResponse(v))
    ELSE IF v.stage = "direct"
         THEN [v EXCEPT !.pc = "range"]
         ELSE Answer(v, NotFoundResponse(v))

\* The control flow after a look-up that found nothing.
AfterMiss(v0) ==
    LET v == [v0 EXCEPT !.hashed = NoHash, !.masked = <<>>]   \* dead from here on
    IN
    IF v.stage = "identity"
    THEN IF v.bank # <<>>
         THEN EnterHash(v, "direct", Concat3(v.currentDataDate, v.nip, v.bank))
         ELSE Answer(v, NotFoundResponse(v))
    ELSE IF v.stage = "direct"
         THEN [v EXCEPT !.pc = "range"]
         ELSE [v EXCEPT !.pc = "next_mask", !.k = v.k + 1]

\* Mutant: with an account supplied the identity-only match is passed over.
Decide_AccountFirst(v) ==
    IF v.stage = "identity" /\ v.bank # <<>> THEN AfterMiss(v)
    ELSE IF v.isActive THEN Answer(v, MatchResponse(v, "ACTIVE"))
    ELSE IF v.isExempt THEN Answer(v, MatchResponse(v, "EXEMPT"))
    ELSE AfterMiss(v)

\* Mutant: the exempt set is not consulted.
Decide_ActiveOnly(v) ==
    IF v.isActive THEN Answer(v, MatchResponse(v, "ACTIVE")) ELSE AfterMiss(v)

\* Mutant: the exempt set is tested before the active set.
Decide_ExemptFirst(v) ==
    IF v.isExempt THEN Answer(v, MatchResponse(v, "EXEMPT"))
    ELSE IF v.isActive THEN Answer(v, MatchResponse(v, "ACTIVE"))
    ELSE AfterMiss(v)

\* main.go:194-201, 212-219, 231-238: active is tested before exempt.
Decide(v) ==
    IF v.isActive THEN Answer(v, MatchResponse(v, "ACTIVE"))
    ELSE IF v.isExempt THEN Answer(v, MatchResponse(v, "EXEMPT"))
    ELSE AfterMiss(v)

\* main.go:190-192, 208-210, 227-229: both maps are read under the read
\* lock, the lock is released and the result acted on.
Lookup(p) ==
    /\ VerifierAt(p, "lookup")
    /\ mu' = AfterRUnlock(p)
    /\ Becomes(p, Decide([verifier[p] EXCEPT
                            !.isActive = verifier[p].hashed \in activeHashes,
                            !.isExempt = verifier[p].hashed \in exemptHashes]))
    /\ UNCHANGED <<dataset, updater, disturbed>>

\* A slice header read while it is being stored: pointer and length may
\* come from different slices.
TornSlice(ptrOf, lenOf) ==
    [j \in 1..Len(lenOf) |-> IF j <= Len(ptrOf) THEN ptrOf[j] ELSE Wild]

\* What `range masks` may read (main.go:221): the lock is not held.
MasksRead ==
    IF UpdaterAt("store_masks_end")
    THEN {masks, updater.structure.Masks,
          TornSlice(masks, updater.structure.Masks),
          TornSlice(updater.structure.Masks, masks)}
    ELSE {masks}

\* main.go:221: the range expression is evaluated once.
RangeMasks(p) ==
    /\ VerifierAt(p, "range")
    /\ \E read \in MasksRead :
          Becomes(p, [verifier[p] EXCEPT !.pc = "next_mask", !.rangeMasks = read, !.k = 1])
    /\ UNCHANGED <<dataset, mu, updater, disturbed>>

\* main.go:221-223: the next template, if any, is applied and its hash begun;
\* with no template left the handler falls through to main.go:242.
NextMask(p) ==
    /\ VerifierAt(p, "next_mask")
    /\ LET v == verifier[p]
           mask == v.rangeMasks[v.k]
           masked == IF mask = Wild THEN Panic ELSE applyMask(v.bank, mask)
       IN  Becomes(p,
             IF v.k > Len(v.rangeMasks) THEN Answer(v, NotFoundResponse(v))
             ELSE IF masked = Panic THEN Answer(v, PanicResponse)
             ELSE EnterHash([v EXCEPT !.masked = masked], "mask",
                            Concat3(v.currentDataDate, v.nip, masked)))
    /\ UNCHANGED <<dataset, mu, updater, disturbed>>

\* The handler has returned; the goroutine serves the next request.
Return(p) ==
    /\ VerifierAt(p, "done")
    /\ Becomes(p, IdleVerifier)
    /\ disturbed' = [disturbed EXCEPT ![p] = FALSE]
    /\ UNCHANGED <<dataset, mu, updater>>

Verify(p) ==
    \/ Validate(p) \/ RLock(p) \/ ReadDate(p) \/ HashStep(p) \/ Lookup(p)
    \/ RangeMasks(p) \/ NextMask(p) \/ Return(p)

Next == UpdateData \/ \E p \in Verifiers : Verify(p)

Spec == Init /\ [][Next]_vars

(***************************************************************************)
(* The service under fair scheduling, for the properties of progress.      *)
(* The Go scheduler is preemptive, so a goroutine that can take a step     *)
(* eventually takes it, and a time.Sleep ends: updateData and a handler    *)
(* that has been entered keep running.  Nothing makes a request arrive, so *)
(* Validate is under no fairness.  A reader blocked in RLock by a writer   *)
(* is admitted when that writer unlocks, ahead of any later writer         *)
(* (sync.RWMutex), hence strong fairness for RLock.                        *)
(*                                                                         *)
(* The registry publishes document C only and the requests are those that  *)
(* run through every stage of verifyHandler on it.                         *)
(***************************************************************************)
FairDocuments == {DocC}
FairNipInputs == {NIP2}
FairBankInputs == {Bank1}
\* Two requests are served at a time.
FairVerifiers == {"v1", "v2"}

FairInit ==
    /\ dataDate = InitialDataDate
    /\ iterations = DefaultIterations
    /\ activeHashes = {}
    /\ exemptHashes = {}
    /\ masks = <<>>
    /\ mu = [writer |-> FALSE, pending |-> FALSE, readers |-> {}]
    /\ updater = [pc |-> "attempt", structure |-> ZeroStructure, refreshed |-> FALSE]
    /\ verifier = [p \in FairVerifiers |-> IdleVerifier]
    /\ disturbed = [p \in FairVerifiers |-> FALSE]

FairUpdateData ==
    \/ DownloadFail \/ ExtractFail \/ ReadFileFail \/ UnmarshalFail
    \/ LockRequestOf(FairDocuments) \/ LockAcquire
    \/ StoreHeader \/ StoreHashes
    \/ StoreMasksBegin \/ StoreMasksEnd
    \/ Unlock
    \/ WakeAfterFailure \/ WakeAfterSuccess

\* The steps of a handler that has been entered, other than its RLock calls.
Serve(p) ==
    \/ ReadDate(p) \/ HashStep(p) \/ Lookup(p)
    \/ RangeMasks(p) \/ NextMask(p) \/ Return(p)

FairNext ==
    \/ FairUpdateData
    \/ \E p \in FairVerifiers :
          ValidateOf(p, FairNipInputs, FairBankInputs) \/ RLock(p) \/ Serve(p)

FairSpec ==
    /\ FairInit /\ [][FairNext]_vars
    /\ WF_vars(FairUpdateData)
    /\ \A p \in FairVerifiers : WF_vars(Serve(p)) /\ SF_vars(RLock(p))

(***************************************************************************)
(* Vocabulary of the properties.                                           *)
(***************************************************************************)
\* A request that passes validation: non-empty taxId, account absent or 26 long.
ValidRequest(v) == v.nip # <<>> /\ (v.bank = <<>> \/ Len(v.bank) = AccountLen)

\* The call of p has been answered and no refresh wrote to the dataset
\* between its read of dataDate and now: the dataset variables are the one
\* snapshot the whole call ran against.
AnsweredOnSnapshot(p) ==
    /\ verifier[p].pc = "done"
    /\ ValidRequest(verifier[p])
    /\ ~disturbed[p]

\* computeHash of the specification on the live snapshot.
computeHash(seed) == Published(seed, iterations)
InEitherSet(h) == h \in activeHashes \cup exemptHashes

IdentityHash(v) == computeHash(dataDate \o v.nip)
DirectHash(v) == computeHash(Concat3(dataDate, v.nip, v.bank))
MaskedHash(v, k) == computeHash(Concat3(dataDate, v.nip, applyMask(v.bank, masks[k])))
\* Template k can be applied to the account and its masked hash is in neither set.
TemplateMisses(v, k) == applyMask(v.bank, masks[k]) # Panic /\ ~InEitherSet(MaskedHash(v, k))
TemplateMatches(v, k) == applyMask(v.bank, masks[k]) # Panic /\ InEitherSet(MaskedHash(v, k))

(***************************************************************************)
(* C1: refresh is atomic with respect to verify: whenever a call looks a   *)
(* hash up in the hash sets, the date it salted the hash with, the number  *)
(* of rounds it hashed and (in the template scan) the templates it ranges  *)
(* over are those of the snapshot whose hash sets it is reading.           *)
(***************************************************************************)
LookupStepOf(p) == verifier[p].pc = "lookup" /\ verifier'[p].pc # "lookup"

C1_LookupsUseOneSnapshot ==
    [][\A p \in Verifiers :
          LookupStepOf(p) =>
             /\ verifier[p].currentDataDate = dataDate
             /\ verifier[p].hashed.sums = iterations
             /\ (verifier[p].stage = "mask" => verifier[p].rangeMasks = masks)]_vars

(***************************************************************************)
(* C2: for a valid request answered on one snapshot, an identity-only hash *)
(* in the active set gives {ACTIVE, NA, date}, otherwise one in the exempt *)
(* set gives {EXEMPT, NA, date} - whether or not an account was supplied,  *)
(* and whatever the account's direct or masked hashes are.                 *)
(***************************************************************************)
C2_IdentityMatchShortCircuits ==
    \A p \in Verifiers :
        AnsweredOnSnapshot(p) =>
            LET v == verifier[p]
            IN  /\ IdentityHash(v) \in activeHashes
                     => v.resp = OkResponse("ACTIVE", "NA", dataDate)
                /\ IdentityHash(v) \notin activeHashes /\ IdentityHash(v) \in exemptHashes
                     => v.resp = OkResponse("EXEMPT", "NA", dataDate)

\* An identity-only match answered ACTIVE / NA although an account was
\* supplied whose masked hash is itself published.
C2_Witness ==
    \E p \in Verifiers :
        /\ AnsweredOnSnapshot(p)
        /\ verifier[p].nip = NIP1 /\ verifier[p].bank = Bank1
        /\ IdentityHash(verifier[p]) \in activeHashes
        /\ verifier[p].resp = OkResponse("ACTIVE", "NA", DateA)

(***************************************************************************)
(* C3: for a valid request with a 26-character account answered on one     *)
(* snapshot, when the identity-only hash is in neither set the direct hash *)
(* of date + taxId + account decides: in the active set it gives           *)
(* {ACTIVE, MATCHED, date}, otherwise in the exempt set                    *)
(* {EXEMPT, MATCHED, date}, and no mask template has been looked at.       *)
(***************************************************************************)
NoTemplateTried(v) == v.k = 0 /\ v.rangeMasks = <<>> /\ v.masked = <<>>

C3_DirectHashBeforeMasks ==
    \A p \in Verifiers :
        LET v == verifier[p]
        IN  (AnsweredOnSnapshot(p) /\ ~InEitherSet(IdentityHash(v)) /\ v.bank # <<>>) =>
                /\ DirectHash(v) \in activeHashes
                     => v.resp = OkResponse("ACTIVE", "MATCHED", dataDate) /\ NoTemplateTried(v)
                /\ DirectHash(v) \notin activeHashes /\ DirectHash(v) \in exemptHashes
                     => v.resp = OkResponse("EXEMPT", "MATCHED", dataDate) /\ NoTemplateTried(v)

\* A direct exempt match is answered although the first template's masked
\* hash is in the active set.
C3_Witness ==
    \E p \in Verifiers :
        LET v == verifier[p]
        IN  /\ AnsweredOnSnapshot(p)
            /\ v.nip = NIP2 /\ v.bank = Bank1
            /\ ~InEitherSet(IdentityHash(v))
            /\ DirectHash(v) \in exemptHashes
            /\ Len(masks) >= 1 /\ TemplateMatches(v, 1) /\ MaskedHash(v, 1) \in activeHashes
            /\ v.resp = OkResponse("EXEMPT", "MATCHED", DateA)

(***************************************************************************)
(* C4: for a valid request answered on one snapshot, when neither the      *)
(* identity-only nor the direct hash is in a set, the answer is that of    *)
(* the first template, in published order, whose masked hash is in either  *)
(* set: the templates before it, which miss, are skipped, and templates    *)
(* after it, matching or not, do not count.                                *)
(***************************************************************************)
FirstMatch(v, m) ==
    /\ m \in 1..Len(masks)
    /\ TemplateMatches(v, m)
    /\ \A j \in 1..(m - 1) : TemplateMisses(v, j)

C4_FirstMatchingTemplateWins ==
    \A p \in Verifiers :
        LET v == verifier[p]
        IN  (/\ AnsweredOnSnapshot(p)
             /\ ~InEitherSet(IdentityHash(v))
             /\ v.bank # <<>>
             /\ ~InEitherSet(DirectHash(v))) =>
                \A m \in 1..Len(masks) :
                    FirstMatch(v, m) =>
                        /\ v.resp = OkResponse(IF MaskedHash(v, m) \in activeHashes
                                               THEN "ACTIVE" ELSE "EXEMPT",
                                               "MATCHED", dataDate)
                        /\ v.k = m

\* The first template matches the exempt set and the second the active set:
\* the answer is EXEMPT.
C4_Witness ==
    \E p \in Verifiers :
        LET v == verifier[p]
        IN  /\ AnsweredOnSnapshot(p)
            /\ ~InEitherSet(IdentityHash(v)) /\ v.bank # <<>> /\ ~InEitherSet(DirectHash(v))
            /\ Len(masks) = 2
            /\ FirstMatch(v, 1) /\ MaskedHash(v, 1) \in exemptHashes
            /\ TemplateMatches(v, 2) /\ MaskedHash(v, 2) \in activeHashes
            /\ v.resp = OkResponse("EXEMPT", "MATCHED", dataDate)

\* The first template misses and is skipped, the second matches.
C4_WitnessSkip ==
    \E p \in Verifiers :
        LET v == verifier[p]
        IN  /\ AnsweredOnSnapshot(p)
            /\ ~InEitherSet(IdentityHash(v)) /\ v.bank # <<>> /\ ~InEitherSet(DirectHash(v))
            /\ FirstMatch(v, 2)
            /\ v.resp = OkResponse("ACTIVE", "MATCHED", dataDate)

(***************************************************************************)
(* C5: a valid request answered on one snapshot gets                       *)
(* {NOT_FOUND, NOT_FOUND, date} exactly when nothing matched: the          *)
(* identity-only hash is in neither set and either no account was          *)
(* supplied, or the direct hash and every template's masked hash are in    *)
(* neither set.                                                            *)
(***************************************************************************)
NothingMatched(v) ==
    /\ ~InEitherSet(IdentityHash(v))
    /\ \/ v.bank = <<>>
       \/ /\ ~InEitherSet(DirectHash(v))
          /\ \A k \in 1..Len(masks) : TemplateMisses(v, k)

C5_NotFoundIffNothingMatched ==
    \A p \in Verifiers :
        AnsweredOnSnapshot(p) =>
            (verifier[p].resp = OkResponse("NOT_FOUND", "NOT_FOUND", dataDate)
                <=> NothingMatched(verifier[p]))

\* An account is supplied, two templates are published, nothing matches.
C5_Witness ==
    \E p \in Verifiers :
        LET v == verifier[p]
        IN  /\ AnsweredOnSnapshot(p)
            /\ v.bank = Bank2 /\ Len(masks) = 2 /\ v.k = 3
            /\ NothingMatched(v)
            /\ v.resp = OkResponse("NOT_FOUND", "NOT_FOUND", DateA)

(***************************************************************************)
(* C6: validation comes first.  An empty taxId is answered                 *)
(* "Missing required parameters" whatever the account is; a non-empty      *)
(* taxId with an account that is supplied but not 26 long is answered      *)
(* "Invalid bank account number".  In both cases the call has read no      *)
(* date and begun no hash, and its step leaves dataset and lock alone.     *)
(***************************************************************************)
NothingComputed(v) ==
    /\ v.currentDataDate = <<>> /\ v.stage = ""
    /\ v.hash = NoHash /\ v.hashed = NoHash /\ v.i = 0
    /\ ~v.isActive /\ ~v.isExempt /\ v.rangeMasks = <<>>

RejectedCorrectly(v) ==
    /\ v.nip = <<>>
         => v.resp = ErrorResponse("Missing required parameters") /\ NothingComputed(v)
    /\ (v.nip # <<>> /\ v.bank # <<>> /\ Len(v.bank) # AccountLen)
         => v.resp = ErrorResponse("Invalid bank account number") /\ NothingComputed(v)

SpecifiedIterations(count) ==
    LET parsed == Atoi(count)
    IN  IF ~parsed.err /\ parsed.val > 0 THEN parsed.val ELSE DefaultIterations

C7_InvalidCountGivesDefault ==
    updater.pc \in {"store_hashes", "store_masks", "store_masks_end", "unlock"}
        => iterations = SpecifiedIterations(updater.structure.TransformCount)

(***************************************************************************)
(* C8: a refresh attempt that fails (download, extraction, file read or    *)
(* JSON parse) leaves dataDate, iterations, activeHashes, exemptHashes and *)
(* masks as they were, and so does the wait that follows it.               *)
(***************************************************************************)
C8_FailedRefreshKeepsSnapshot ==
    [][/\ (updater.pc = "attempt" /\ updater'.pc = "sleep_1h") => UNCHANGED <<dataset, mu>>
       /\ updater.pc = "sleep_1h" => UNCHANGED dataset]_vars

\* An attempt has failed after an earlier one published document A.
C8_Witness ==
    /\ updater.pc = "sleep_1h"
    /\ dataDate = DateA /\ iterations = 2
    /\ activeHashes = Range(DocA.ActiveHashes) /\ masks = DocA.Masks

(***************************************************************************)
(* C9: calculateHash digests exactly `iterations` times: the seed first,   *)
(* then the lowercase hex text of the previous digest, and returns the     *)
(* last digest as lowercase hex; with iterations = 1 that is one           *)
(* hex-encoded digest of the seed.                                         *)
(***************************************************************************)
HashInput(v) ==
    IF v.stage = "identity" THEN v.currentDataDate \o v.nip
    ELSE IF v.stage = "direct" THEN Concat3(v.currentDataDate, v.nip, v.bank)
    ELSE Concat3(v.currentDataDate, v.nip, v.masked)

C9_HashIsIteratedHexDigest ==
    \A p \in Verifiers :
        LET v == verifier[p]
        IN  /\ v.pc = "hash"
                 => v.hash = IF v.i = 0 THEN Text(HashInput(v))
                             ELSE Published(HashInput(v), v.i)
            /\ (v.pc \in {"rlock_lookup", "lookup"} /\ ~disturbed[p])
                 => /\ v.hashed = Published(HashInput(v), iterations)
                    /\ iterations = 1
                         => v.hashed = EncodeToString(Sum512(Text(HashInput(v))))

\* A two-round hash has been computed with no refresh in its way.
C9_Witness ==
    \E p \in Verifiers :
        /\ verifier[p].pc = "lookup" /\ ~disturbed[p]
        /\ iterations = 2
        /\ verifier[p].hashed = Published(DateA \o NIP1, 2)

(***************************************************************************)
(* C10: for a template as long as the account, applyMask returns a string  *)
(* of that length with the account's character where the template has 'Y', *)
(* 'X' where it has 'X' and the template's character elsewhere; so an      *)
(* all-'Y' template gives the account and one without 'Y'/'X' gives the    *)
(* template; account and template are left as they were.                   *)
(***************************************************************************)
MaskedAsSpecified(bank, mask, masked) ==
    /\ Len(masked) = Len(bank)
    /\ \A j \in 1..Len(bank) :
          masked[j] = IF mask[j] = "Y" THEN bank[j]
                      ELSE IF mask[j] = "X" THEN "X" ELSE mask[j]
    /\ (\A j \in 1..Len(mask) : mask[j] = "Y") => masked = bank
    /\ (\A j \in 1..Len(mask) : mask[j] \notin {"X", "Y"}) => masked = mask

C10_MaskPerPosition ==
    /\ [](\A p \in Verifiers :
            LET v == verifier[p]
            IN  (v.stage = "mask" /\ v.pc \in {"hash", "rlock_lookup", "lookup"}
                   /\ Len(v.rangeMasks[v.k]) = Len(v.bank))
                  => MaskedAsSpecified(v.bank, v.rangeMasks[v.k], v.masked))
    /\ [][\A p \in Verifiers :
             (verifier[p].pc = "next_mask" /\ verifier'[p] # verifier[p])
                => /\ verifier'[p].bank = verifier[p].bank
                   /\ verifier'[p].rangeMasks = verifier[p].rangeMasks
                   /\ masks' = masks]_vars

\* The template "9Y" X...X "YY" applied to account 1234...3456.
C10_Witness ==
    \E p \in Verifiers :
        LET v == verifier[p]
        IN  /\ v.stage = "mask" /\ v.pc = "hash"
            /\ v.bank = Bank1 /\ v.rangeMasks[v.k] = MaskMixed
            /\ v.masked[1] = "9" /\ v.masked[2] = "2" /\ v.masked[3] = "X"
            /\ v.masked[AccountLen - 1] = "5" /\ v.masked[AccountLen] = "6"

(***************************************************************************)
(* C11: applyMask treats a template whose length differs from the          *)
(* account's as an error: no masked string comes out of such a template,   *)
(* so verifyHandler never goes on to hash one.                             *)
(***************************************************************************)
C11_LengthMismatchIsError ==
    \A p \in Verifiers :
        LET v == verifier[p]
        IN  (v.stage = "mask" /\ v.pc \in {"hash", "rlock_lookup", "lookup"})
                => Len(v.rangeMasks[v.k]) = Len(v.bank)

(***************************************************************************)
(* C12: a malformed document is rejected wholesale: loadData changes the   *)
(* dataset only when the parsed document has its generation date and its   *)
(* hash arrays and every mask template is 26 characters long.  (A key      *)
(* absent from the JSON leaves the field of `structure` at its zero value.)*)
(***************************************************************************)
WellFormedDocument(doc) ==
    /\ doc.DataDate # <<>>
    /\ doc.ActiveHashes # <<>>
    /\ doc.ExemptHashes # <<>>
    /\ \A k \in 1..Len(doc.Masks) : Len(doc.Masks[k]) = AccountLen

C12_MalformedDocumentRejected ==
    [][dataset' # dataset => WellFormedDocument(updater.structure)]_vars

(***************************************************************************)
(* C14: a verify call with valid input always ends in an encoded Response  *)
(* (OK or ERROR), never in a panic of the handler goroutine, whatever      *)
(* templates the published snapshot carries - stated here for the calls    *)
(* that ran against one published snapshot from beginning to end.          *)
(***************************************************************************)
C14_ValidCallNeverPanics ==
    \A p \in Verifiers :
        AnsweredOnSnapshot(p) => verifier[p].resp.response \in {"OK", "ERROR"}

(***************************************************************************)
(* C15: every read of a dataset variable by a verify call is made with the *)
(* read lock held by that call, and every write by loadData with the write *)
(* lock held.  The steps that read are ReadDate (dataDate), HashStep       *)
(* (iterations), Lookup (activeHashes, exemptHashes) and RangeMasks        *)
(* (masks).                                                                *)
(***************************************************************************)
ReadsDataset(p) ==
    /\ verifier[p].pc \in {"read_date", "hash", "lookup", "range"}
    /\ verifier'[p] # verifier[p]

C15_AccessesHoldTheLock ==
    [][/\ \A p \in Verifiers : ReadsDataset(p) => p \in mu.readers /\ ~mu.writer
       /\ dataset' # dataset => mu.writer /\ mu.readers = {}
       /\ updater.pc = "store_masks_end" => mu.writer /\ mu.readers = {}]_vars
(***************************************************************************)
(* C16: in each of the three look-ups (identity-only, direct, masked) a    *)
(* hash found in the active set is answered ACTIVE whether or not it is in *)
(* the exempt set as well; EXEMPT is answered only for a hash that is in   *)
(* the exempt set and not in the active set.                               *)
(***************************************************************************)
C16_ActiveBeforeExempt ==
    [][\A p \in Verifiers :
          LookupStepOf(p) =>
             /\ verifier[p].hashed \in activeHashes
                  => verifier'[p].pc = "done" /\ verifier'[p].resp.status = "ACTIVE"
             /\ (verifier'[p].pc = "done" /\ verifier'[p].resp.status = "EXEMPT")
                  => /\ verifier[p].hashed \notin activeHashes
                     /\ verifier[p].hashed \in exemptHashes]_vars

\* A call whose look-up in the given stage found its hash in both sets.
OverlapAnswered(p, stage) ==
    /\ AnsweredOnSnapshot(p)
    /\ verifier[p].stage = stage
    /\ verifier[p].hashed \in activeHashes \cap exemptHashes

\* The identity-only hash is in both sets and the answer is ACTIVE / NA.
C16_Witness ==
    \E p \in Verifiers :
        /\ OverlapAnswered(p, "identity")
        /\ verifier[p].resp = OkResponse("ACTIVE", "NA", dataDate)

\* The same for the direct hash and for a masked hash.
C16_WitnessDirect ==
    \E p \in Verifiers :
        /\ OverlapAnswered(p, "direct")
        /\ verifier[p].resp = OkResponse("ACTIVE", "MATCHED", dataDate)

C16_WitnessMask ==
    \E p \in Verifiers :
        /\ OverlapAnswered(p, "mask")
        /\ verifier[p].resp = OkResponse("ACTIVE", "MATCHED", dataDate)
(***************************************************************************)
(* C17: the date of every OK response is the date the call copied from     *)
(* dataDate at its start, and that same string is the prefix of the input  *)
(* of every hash the call computes (identity-only, direct, masked); the    *)
(* copy does not change while the call runs, whatever a refresh does to    *)
(* dataDate in the meantime.                                               *)
(***************************************************************************)
StartsWith(s, prefix) == Len(s) >= Len(prefix) /\ SubSeq(s, 1, Len(prefix)) = prefix

SaltedWithOwnDate(v) ==
    /\ v.pc = "hash" => StartsWith(v.hash.seed, v.currentDataDate)
    /\ v.pc \in {"rlock_lookup", "lookup"} => StartsWith(v.hashed.seed, v.currentDataDate)
    /\ (v.pc = "done" /\ v.resp.response = "OK")
          => /\ v.resp.date = v.currentDataDate
             /\ v.hashed # NoHash => StartsWith(v.hashed.seed, v.resp.date)

C17_ResponseDateIsSaltDate ==
    /\ [](\A p \in Verifiers : SaltedWithOwnDate(verifier[p]))
    /\ [][\A p \in Verifiers :
             verifier[p].pc \in {"hash", "rlock_lookup", "lookup", "range", "next_mask"}
                => verifier'[p].currentDataDate = verifier[p].currentDataDate]_vars

\* A call that copied the initial date, when no template was published, has
\* since ranged over the two templates of document A - so a refresh changed
\* dataDate while it was running - and is answered with the initial date.
C17_Witness ==
    \E p \in Verifiers :
        LET v == verifier[p]
        IN  /\ v.pc = "done" /\ v.k = 3 /\ v.rangeMasks = DocA.Masks
            /\ v.currentDataDate = InitialDataDate
            /\ dataDate = DateA
            /\ v.resp = OkResponse("NOT_FOUND", "NOT_FOUND", InitialDataDate)

\* The same call while it hashes the second masked string.
C17_WitnessHash ==
    \E p \in Verifiers :
        LET v == verifier[p]
        IN  /\ v.pc = "hash" /\ v.stage = "mask" /\ v.k = 2 /\ v.rangeMasks = DocA.Masks
            /\ dataDate = DateA
            /\ v.hash.seed = Concat3(InitialDataDate, v.nip, v.bank)
(***************************************************************************)
(* C18: until a refresh has succeeded no valid request is answered ACTIVE, *)
(* EXEMPT or MATCHED, and every response to one is                         *)
(* {NOT_FOUND, NOT_FOUND, "20250101"}.  As long as no refresh has begun to *)
(* publish - at the start and after any number of failed refreshes - the   *)
(* dataset is the initial one and every valid request is so answered.      *)
(***************************************************************************)
\* loadData has not yet stored anything.
NothingPublished ==
    /\ ~updater.refreshed
    /\ updater.pc \notin {"store_hashes", "store_masks", "store_masks_end", "unlock"}

InitialDataset ==
    /\ dataDate = InitialDataDate /\ iterations = DefaultIterations
    /\ activeHashes = {} /\ exemptHashes = {} /\ masks = <<>>

InitialAnswer == OkResponse("NOT_FOUND", "NOT_FOUND", InitialDataDate)

C18_NotFoundUntilFirstRefresh ==
    /\ NothingPublished => InitialDataset
    /\ \A p \in Verifiers :
          LET v == verifier[p]
          IN  (v.pc = "done" /\ ValidRequest(v)) =>
                 /\ NothingPublished => v.resp = InitialAnswer
                 /\ ~updater.refreshed
                      => /\ v.resp.status \notin {"ACTIVE", "EXEMPT"}
                         /\ v.resp.bank # "MATCHED"
                         /\ v.resp.response = "OK" => v.resp = InitialAnswer

\* A refresh has failed, none has succeeded, and a request with an account
\* has been answered.
C18_Witness ==
    \E p \in Verifiers :
        /\ updater.pc = "sleep_1h" /\ ~updater.refreshed
        /\ verifier[p].pc = "done"
        /\ verifier[p].nip = NIP1 /\ verifier[p].bank = Bank1
        /\ verifier[p].resp = InitialAnswer
(***************************************************************************)
(* C19: iterations is at least 1 in every reachable state, whatever counts *)
(* the published documents carried, and every hash calculateHash returns   *)
(* is the hex text of at least one digest, never the input string itself.  *)
(***************************************************************************)
C19_IterationsAtLeastOne ==
    /\ iterations >= 1
    /\ \A p \in Verifiers :
          LET v == verifier[p]
          IN  v.pc \in {"rlock_lookup", "lookup"}
                 => /\ v.hashed.sums >= 1
                    /\ v.hashed.form = "hex"
                    /\ v.hashed # Text(HashInput(v))

\* A document with count "0" is being published after document A, while a
\* call that has finished a hash waits for the read lock.
C19_Witness ==
    \E p \in Verifiers :
        /\ updater.pc = "store_hashes"
        /\ updater.structure.TransformCount = <<"0">>
        /\ iterations = 2
        /\ verifier[p].pc = "rlock_lookup"
        /\ verifier[p].hashed.sums >= 1

\* The same with the count "-3" and with an unparsable count.
C19_WitnessNegative ==
    /\ updater.pc = "store_hashes"
    /\ updater.structure.TransformCount \in {<<"-", "3">>, <<"a", "b", "c">>}
    /\ iterations >= 1
(***************************************************************************)
(* C13: the refresh task is an endless cycle of attempts and waits.  An    *)
(* attempt ends either in the 1-hour wait (download, extraction or load    *)
(* failed) or, through loadData's publication, in the 24-hour wait; the    *)
(* 24-hour wait is entered only after a publication and the 1-hour wait    *)
(* only after a failed attempt; each wait ends in a new attempt; and the   *)
(* task makes attempts again and again, for ever.                          *)
(***************************************************************************)
UpdaterMoves(from, to) == updater.pc = from /\ updater'.pc = to

AttemptSleepCycle ==
    /\ (updater.pc = "attempt" /\ updater'.pc # "attempt")
          => updater'.pc \in {"sleep_1h", "lock_wait"}
    /\ (updater.pc = "unlock" /\ updater'.pc # "unlock") => updater'.pc = "sleep_24h"
    /\ (updater'.pc = "sleep_24h" /\ updater.pc # "sleep_24h") => updater.pc = "unlock"
    /\ (updater'.pc = "sleep_1h" /\ updater.pc # "sleep_1h") => updater.pc = "attempt"
    /\ (updater.pc \in {"sleep_1h", "sleep_24h"} /\ updater'.pc # updater.pc)
          => updater'.pc = "attempt"

C13_RefreshCyclesForever ==
    /\ [][AttemptSleepCycle]_vars
    /\ (updater.pc = "sleep_1h") ~> (updater.pc = "attempt")
    /\ (updater.pc = "sleep_24h") ~> (updater.pc = "attempt")
    /\ []<>(updater.pc = "attempt")
    /\ []<>(updater.pc \in {"sleep_1h", "sleep_24h"})

\* An attempt made after an earlier success has failed and waits to retry.
C13_Witness == updater.pc = "sleep_1h" /\ updater.refreshed
(***************************************************************************)
(* C20: the locking protocol is free of deadlock and every verify call     *)
(* completes.  A call takes the read lock only when it does not hold it,   *)
(* holds it exactly while it reads dataDate or looks a hash up, and so     *)
(* never across a hash computation; loadData holds the write lock exactly  *)
(* from its Lock to its deferred Unlock, alone.  Under fair scheduling,    *)
(* with other calls and refreshes running, every call that has been        *)
(* entered eventually produces its response, and every refresh that has    *)
(* called Lock eventually publishes and returns.  The progress of calls is *)
(* stated here for the calls that no refresh wrote into while they ran.    *)
(***************************************************************************)
LockProtocol ==
    /\ \A p \in DOMAIN verifier : p \in mu.readers <=> verifier[p].pc \in {"read_date", "lookup"}
    /\ mu.writer <=> updater.pc \in {"store_header", "store_hashes", "store_masks",
                                     "store_masks_end", "unlock"}
    /\ mu.pending <=> updater.pc = "lock_wait"
    /\ mu.writer => mu.readers = {}

Responded(p) == verifier[p].pc = "done" /\ verifier[p].resp.response \in {"OK", "ERROR"}
\* The call has returned after a refresh wrote to the dataset under it.
Raced(p) == verifier[p].pc = "done" /\ disturbed[p]

C20_EveryCallResponds ==
    /\ []LockProtocol
    /\ \A p \in FairVerifiers : (verifier[p].pc # "idle") ~> (Responded(p) \/ Raced(p))
    /\ (updater.pc = "lock_wait") ~> (updater.pc = "sleep_24h")

\* What does hold: no call and no refresh is ever stuck.  Every call that
\* has been entered returns, with a response or by a panic, and every
\* refresh that has called Lock publishes and returns.
NoCallIsStuck ==
    /\ []LockProtocol
    /\ \A p \in FairVerifiers : (verifier[p].pc # "idle") ~> (verifier[p].pc = "done")
    /\ (updater.pc = "lock_wait") ~> (updater.pc = "sleep_24h")
====
